---- MODULE Spec2Model ----
(***************************************************************************)
(* gomreport: the omcliproxy trust gate of omreport.go.                    *)
(*                                                                         *)
(* The state is a small filesystem, the *OMReport returned by the last     *)
(* NewOMReporter call, and the record of the call that has just returned.  *)
(* Other processes (and the test code) change the filesystem between the   *)
(* client's calls; each client call is synchronous and runs to completion. *)
(***************************************************************************)
EXTENDS Integers, Sequences, FiniteSets, TLC

(* ---------------------------------------------------------------- bounds *)

\* Longest file content, in bytes, that the filesystem holds.
MaxLen == 1

(* ------------------------------------------------------------- constants *)

DefaultOMCLIProxyDir == <<"opt", "dell", "srvadmin", "sbin">>

DefaultOMCLIProxyBinaryName == "omcliproxy"

DefaultOMReportCommandName == "omreport"

(* ------------------------------------------------------------ filesystem *)

\* A path is the sequence of its components; <<>> is the empty string.
PathA == <<"a", "omcliproxy">>

PathB == <<"b", "omcliproxy">>

PathM == <<"a", "maliciousproxy">>

\* The paths that have an entry in the modelled filesystem.
Paths == {PathA, PathB, PathM}

\* The paths a caller may put in Config.OMCLIProxyPath.
ConfigPaths == Paths \cup {<<>>}

\* The byte values file contents are made of.
Bytes == {0, 1}

RECURSIVE SeqsUpTo(_)
SeqsUpTo(n) ==
    IF n = 0 THEN {<<>>}
    ELSE LET shorter == SeqsUpTo(n - 1)
         IN  shorter \cup {Append(s, b) : s \in {t \in shorter : Len(t) = n - 1}, b \in Bytes}

Contents == SeqsUpTo(MaxLen)

Missing == [kind |-> "missing", data |-> <<>>, target |-> <<>>, readable |-> FALSE]

Regular(data, readable) ==
    [kind |-> "regular", data |-> data, target |-> <<>>, readable |-> readable]

Symlink(target) ==
    [kind |-> "symlink", data |-> <<>>, target |-> target, readable |-> TRUE]

Dir == [kind |-> "dir", data |-> <<>>, target |-> <<>>, readable |-> TRUE]

\* The entry a path names, without following a symbolic link.
EntryAt(f, path) == IF path \in DOMAIN f THEN f[path] ELSE Missing

\* The path a name resolves to when symbolic links are followed; <<>> when
\* the chain of links loops.
RECURSIVE Follow(_, _, _)
Follow(f, path, seen) ==
    LET e == EntryAt(f, path)
    IN  IF e.kind # "symlink" THEN path
        ELSE IF e.target \in seen THEN <<>>
        ELSE Follow(f, e.target, seen \cup {e.target})

\* The entry a path names after symbolic links are followed.
Resolved(f, path) == EntryAt(f, Follow(f, path, {path}))

(* ----------------------------------------------------------- fingerprint *)

Radix == Cardinality(Bytes)

RECURSIVE Pow(_, _)
Pow(b, n) == IF n = 0 THEN 1 ELSE b * Pow(b, n - 1)

\* The hash state after the bytes of data were written to it.
RECURSIVE HashWrite(_)
HashWrite(data) ==
    IF data = <<>> THEN 1
    ELSE HashWrite(SubSeq(data, 1, Len(data) - 1)) * Radix + data[Len(data)]

\* Number of bytes of a digest.
Size == MaxLen + 1

\* h.Sum(nil): the fixed-size digest of the bytes written.  SHA-256 is
\* modelled as a collision-free digest of the contents the filesystem holds.
Sha256Sum(data) ==
    LET n == HashWrite(data)
    IN  [i \in 1..Size |-> (n \div Pow(Radix, Size - i)) % Radix]

\* The I/O faults a fingerprint computation can meet on an opened file.
Faults == {"none", "read", "close"}

\* A fileSha256 that forgets io.Copy: it sums a hash nothing was written to.
fileSha256NoCopy(f, path, fault) ==
    LET e == Resolved(f, path)
    IN  IF e.kind = "missing" \/ (e.kind = "regular" /\ ~e.readable)
        THEN [sum |-> <<>>, err |-> "open", open |-> FALSE]
        ELSE IF fault = "close"
        THEN [sum |-> <<>>, err |-> "close", open |-> FALSE]
        ELSE [sum |-> Sha256Sum(<<>>), err |-> "nil", open |-> FALSE]

\* The faults a fingerprint of path can meet: only a file that opens and
\* has bytes to give is read and closed.
FaultsAt(f, path) ==
    IF Resolved(f, path).kind = "regular" /\ Resolved(f, path).readable
    THEN Faults ELSE {"none"}

\* fileSha256(path): the digest or the error, and whether the handle that
\* the call opened is still open when it returns.
fileSha256(f, path, fault) ==
    LET e == Resolved(f, path)
    IN  IF e.kind = "missing" \/ (e.kind = "regular" /\ ~e.readable)
        THEN [sum |-> <<>>, err |-> "open", open |-> FALSE]
        ELSE IF e.kind = "dir" \/ fault = "read"
        THEN [sum |-> <<>>, err |-> "read", open |-> TRUE]
        ELSE IF fault = "close"
        THEN [sum |-> <<>>, err |-> "close", open |-> FALSE]
        ELSE [sum |-> Sha256Sum(e.data), err |-> "nil", open |-> FALSE]

(* ---------------------------------------------------------------- client *)

VARIABLES
    fs,       \* the filesystem: the entry at each path
    om,       \* <<>> (nil) or <<r>>, r the OMReport the caller holds
    last,     \* the client call that has just returned, and what it returned
    pinned,   \* the bytes NewOMReporter read when it built om
    flagged,  \* a tamper check of om has reported a mismatch
    threads,  \* the client calls in progress, one per thread, statement by statement
    memory,   \* the string slices of a Report call and the arrays behind them
    pdisk     \* a PDisk record and the attribute method called on it

vars == <<fs, om, last, pinned, flagged, threads, memory, pdisk>>

\* filepath.Base
Base(path) == IF path = <<>> THEN "." ELSE path[Len(path)]

\* filepath.Join(dir, name)
Join(dir, name) == Append(dir, name)

\* An allowedOMCLIProxyBinary without the name check.
allowedAnyName(f, path) ==
    IF EntryAt(f, path).kind = "missing" THEN "stat"
    ELSE IF EntryAt(f, path).kind = "symlink" THEN "symlink"
    ELSE "nil"

\* An allowedOMCLIProxyBinary that calls os.Stat, which follows the link.
allowedWithStat(f, path) ==
    IF Base(path) # DefaultOMCLIProxyBinaryName THEN "name"
    ELSE IF Resolved(f, path).kind = "missing" THEN "stat"
    ELSE IF Resolved(f, path).kind = "symlink" THEN "symlink"
    ELSE "nil"

\* An allowedOMCLIProxyBinary that also requires fi.Mode().IsRegular().
allowedRegularOnly(f, path) ==
    IF Base(path) # DefaultOMCLIProxyBinaryName THEN "name"
    ELSE IF EntryAt(f, path).kind = "missing" THEN "stat"
    ELSE IF EntryAt(f, path).kind = "symlink" THEN "symlink"
    ELSE IF EntryAt(f, path).kind # "regular" THEN "irregular"
    ELSE "nil"

\* An allowedOMCLIProxyBinary that calls os.Lstat before it looks at the name.
allowedStatFirst(f, path) ==
    IF EntryAt(f, path).kind = "missing" THEN "stat"
    ELSE IF EntryAt(f, path).kind = "symlink" THEN "symlink"
    ELSE IF Base(path) # DefaultOMCLIProxyBinaryName THEN "name"
    ELSE "nil"

\* allowedOMCLIProxyBinary: "nil", or the check that failed.
allowedOMCLIProxyBinary(f, path) ==
    IF Base(path) # DefaultOMCLIProxyBinaryName THEN "name"
    ELSE IF EntryAt(f, path).kind = "missing" THEN "stat"
    ELSE IF EntryAt(f, path).kind = "symlink" THEN "symlink"
    ELSE "nil"

OMReport(path, mode, sum) ==
    [omCLIProxyPath |-> path, enhancedSecurityMode |-> mode, sha256Checksum |-> sum]

Config == [OMCLIProxyPath : ConfigPaths, EnhancedSecurityMode : BOOLEAN]

\* A NewOMReporter that never assigns om.sha256Checksum.
NewOMReporterNoBaseline(f, cfg, fault) ==
    LET allowed == allowedOMCLIProxyBinary(f, cfg.OMCLIProxyPath)
        checksum == fileSha256(f, cfg.OMCLIProxyPath, fault)
    IN  IF allowed # "nil"
        THEN [om |-> <<>>, err |-> allowed, open |-> FALSE]
        ELSE IF checksum.err # "nil"
        THEN [om |-> <<>>, err |-> checksum.err, open |-> checksum.open]
        ELSE [om |-> <<OMReport(cfg.OMCLIProxyPath, cfg.EnhancedSecurityMode, <<>>)>>,
              err |-> "nil", open |-> FALSE]

\* A NewOMReporter that returns om, not nil, when fileSha256 fails.
NewOMReporterPartial(f, cfg, fault) ==
    LET allowed == allowedOMCLIProxyBinary(f, cfg.OMCLIProxyPath)
        checksum == fileSha256(f, cfg.OMCLIProxyPath, fault)
    IN  IF allowed # "nil"
        THEN [om |-> <<>>, err |-> allowed, open |-> FALSE]
        ELSE IF checksum.err # "nil"
        THEN [om |-> <<OMReport(cfg.OMCLIProxyPath, cfg.EnhancedSecurityMode, <<>>)>>,
              err |-> checksum.err, open |-> checksum.open]
        ELSE [om |-> <<OMReport(cfg.OMCLIProxyPath, cfg.EnhancedSecurityMode, checksum.sum)>>,
              err |-> "nil", open |-> FALSE]

\* NewOMReporter(cfg): the pointer and the error it returns.
NewOMReporter(f, cfg, fault) ==
    LET allowed == allowedOMCLIProxyBinary(f, cfg.OMCLIProxyPath)
        checksum == fileSha256(f, cfg.OMCLIProxyPath, fault)
    IN  IF allowed # "nil"
        THEN [om |-> <<>>, err |-> allowed, open |-> FALSE]
        ELSE IF checksum.err # "nil"
        THEN [om |-> <<>>, err |-> checksum.err, open |-> checksum.open]
        ELSE [om |-> <<OMReport(cfg.OMCLIProxyPath, cfg.EnhancedSecurityMode, checksum.sum)>>,
              err |-> "nil", open |-> FALSE]

\* A SuspiciousOMCLIProxyBinary whose comparison lost its negation.
SuspiciousInverted(r, f, fault) ==
    LET currentChecksum == fileSha256(f, r.omCLIProxyPath, fault)
    IN  IF currentChecksum.err # "nil"
        THEN [err |-> currentChecksum.err, open |-> currentChecksum.open]
        ELSE IF currentChecksum.sum = r.sha256Checksum
        THEN [err |-> "mismatch", open |-> FALSE]
        ELSE [err |-> "nil", open |-> FALSE]

\* A SuspiciousOMCLIProxyBinary that validates the path again before it reads.
SuspiciousRevalidating(r, f, fault) ==
    LET allowed == allowedOMCLIProxyBinary(f, r.omCLIProxyPath)
        currentChecksum == fileSha256(f, r.omCLIProxyPath, fault)
    IN  IF allowed # "nil"
        THEN [err |-> allowed, open |-> FALSE]
        ELSE IF currentChecksum.err # "nil"
        THEN [err |-> currentChecksum.err, open |-> currentChecksum.open]
        ELSE IF currentChecksum.sum # r.sha256Checksum
        THEN [err |-> "mismatch", open |-> FALSE]
        ELSE [err |-> "nil", open |-> FALSE]

\* SuspiciousOMCLIProxyBinary: "nil", "mismatch" or the I/O failure.
SuspiciousOMCLIProxyBinary(r, f, fault) ==
    LET currentChecksum == fileSha256(f, r.omCLIProxyPath, fault)
    IN  IF currentChecksum.err # "nil"
        THEN [err |-> currentChecksum.err, open |-> currentChecksum.open]
        ELSE IF currentChecksum.sum # r.sha256Checksum
        THEN [err |-> "mismatch", open |-> FALSE]
        ELSE [err |-> "nil", open |-> FALSE]

\* No process was run.
NoRun == [out |-> "", err |-> "nil"]

\* What a run of the external process can hand back: its combined output
\* and the spawn or exit error.
ProcRuns ==
    { [out |-> "xml", err |-> "nil"],
      [out |-> "garbage", err |-> "nil"],
      [out |-> "xml", err |-> "exit"],
      [out |-> "", err |-> "start"] }

\* exec.Command(path, argv...).CombinedOutput()
CombinedOutput(f, path, run) ==
    IF Resolved(f, path).kind # "regular" THEN [out |-> "", err |-> "start"] ELSE run

\* A ReportPath whose test is inverted: it replaces every non-empty path.
ReportPathInverted(r) ==
    IF r.omCLIProxyPath # <<>>
    THEN Join(DefaultOMCLIProxyDir, DefaultOMCLIProxyBinaryName)
    ELSE r.omCLIProxyPath

\* The path Report runs: the stored one, or the default when it is empty.
ReportPath(r) ==
    IF r.omCLIProxyPath = <<>>
    THEN Join(DefaultOMCLIProxyDir, DefaultOMCLIProxyBinaryName)
    ELSE r.omCLIProxyPath

\* A Report that drops the tamper check's error and spawns all the same.
ReportIgnoringCheck(r, f, args, fault, run) ==
    LET r2 == [r EXCEPT !.omCLIProxyPath = ReportPath(r)]
        argv == <<DefaultOMReportCommandName>> \o args \o <<"-fmt", "xml">>
        ran == CombinedOutput(f, r2.omCLIProxyPath, run)
    IN  [om |-> r2, out |-> ran.out, err |-> ran.err, open |-> FALSE,
         calls |-> IF r2.enhancedSecurityMode THEN <<"fileSha256", "exec">>
                   ELSE <<"exec">>,
         argv |-> argv, proc |-> ran]

\* A Report that runs the tamper check whatever enhancedSecurityMode says.
ReportAlwaysChecking(r, f, args, fault, run) ==
    LET r2 == [r EXCEPT !.omCLIProxyPath = ReportPath(r)]
        check == SuspiciousOMCLIProxyBinary(r2, f, fault)
        argv == <<DefaultOMReportCommandName>> \o args \o <<"-fmt", "xml">>
        ran == CombinedOutput(f, r2.omCLIProxyPath, run)
    IN  IF check.err # "nil"
        THEN [om |-> r2, out |-> "", err |-> check.err, open |-> check.open,
              calls |-> <<"fileSha256">>, argv |-> <<>>, proc |-> NoRun]
        ELSE [om |-> r2, out |-> ran.out, err |-> ran.err, open |-> FALSE,
              calls |-> <<"fileSha256", "exec">>, argv |-> argv, proc |-> ran]

\* Report(args...): the client after the call, what the call returned, the
\* calls it made in order, the argv it spawned and what the process handed
\* back.
Report(r, f, args, fault, run) ==
    LET r2 == [r EXCEPT !.omCLIProxyPath = ReportPath(r)]
        check == SuspiciousOMCLIProxyBinary(r2, f, fault)
        argv == <<DefaultOMReportCommandName>> \o args \o <<"-fmt", "xml">>
        ran == CombinedOutput(f, r2.omCLIProxyPath, run)
    IN  IF r2.enhancedSecurityMode /\ check.err # "nil"
        THEN [om |-> r2, out |-> "", err |-> check.err, open |-> check.open,
              calls |-> <<"fileSha256">>, argv |-> <<>>, proc |-> NoRun]
        ELSE [om |-> r2, out |-> ran.out, err |-> ran.err, open |-> FALSE,
              calls |-> IF r2.enhancedSecurityMode THEN <<"fileSha256", "exec">>
                        ELSE <<"exec">>,
              argv |-> argv, proc |-> ran]

\* xml.Unmarshal(data, &out)
Unmarshal(data) == IF data = "xml" THEN "nil" ELSE "xml"

\* A typed report that hands Report's output on when Report fails.
TypedReportWithOutput(r, f, args, fault, run) ==
    LET rep == Report(r, f, args, fault, run)
    IN  IF rep.err # "nil" THEN rep
        ELSE IF Unmarshal(rep.out) # "nil"
        THEN [rep EXCEPT !.out = "nil", !.err = Unmarshal(rep.out)]
        ELSE [rep EXCEPT !.out = "decoded"]

\* A typed report (Chassis and the like): Report, then decode.
TypedReport(r, f, args, fault, run) ==
    LET rep == Report(r, f, args, fault, run)
    IN  IF rep.err # "nil" THEN [rep EXCEPT !.out = "nil"]
        ELSE IF Unmarshal(rep.out) # "nil"
        THEN [rep EXCEPT !.out = "nil", !.err = Unmarshal(rep.out)]
        ELSE [rep EXCEPT !.out = "decoded"]

\* The record of a returned call: op, the operation; cfg, the Config given to
\* NewOMReporter; err and out, what it returned; open, whether a file handle it
\* opened is still open; calls, the file and process calls it made, in order;
\* argv, the arguments of the process it spawned; again, whether the call
\* before it was a tamper check too; proc, what the process it ran handed back.
NoCfg == [OMCLIProxyPath |-> <<>>, EnhancedSecurityMode |-> FALSE]

Idle ==
    [op |-> "none", cfg |-> NoCfg, err |-> "nil", out |-> "", open |-> FALSE,
     calls |-> <<>>, argv |-> <<>>, again |-> FALSE, proc |-> NoRun]

\* The argument lists callers pass to Report.
ArgLists == {<<"chassis", "fans">>}

\* The threads that call into one client at the same time.
NThreads == 2

Tids == 1..NThreads

\* A thread between calls.  pc is its place in the call it is making; op the
\* call; cfg the Config given to NewOMReporter; err what the call returned;
\* wrote, whether the call assigned a field of the client; seen, the entry its
\* first file access met (os.Lstat in NewOMReporter, the fingerprint read in
\* Report); used, the entry its last one met (the fingerprint read in
\* NewOMReporter, the spawn in Report) and spawned, whether it ran a process.
IdleThread ==
    [pc |-> "idle", op |-> "none", cfg |-> NoCfg, err |-> "nil", wrote |-> FALSE,
     seen |-> Missing, used |-> Missing, spawned |-> FALSE]

NoThreads == [t \in Tids |-> IdleThread]

\* No Report call has built an argument list.
NoMemory == <<>>

\* No PDisk record is at hand.
NoPDisk == <<>>

(* --------------------------------------------------------------- actions *)

Init ==
    /\ fs \in [Paths -> {Missing, Regular(<<>>, TRUE)}]
    /\ om = <<>>
    /\ last = Idle
    /\ pinned = <<>>
    /\ flagged = FALSE
    /\ threads = NoThreads
    /\ memory = NoMemory
    /\ pdisk = NoPDisk

CallNewOMReporter ==
    \E cfg \in Config :
      \E fault \in FaultsAt(fs, cfg.OMCLIProxyPath) :
        LET res == NewOMReporter(fs, cfg, fault)
        IN  /\ om' = res.om
            /\ last' = [Idle EXCEPT !.op = "NewOMReporter", !.cfg = cfg,
                                    !.err = res.err, !.open = res.open]
            /\ pinned' = IF res.om = <<>> THEN <<>>
                         ELSE Resolved(fs, cfg.OMCLIProxyPath).data
            /\ flagged' = FALSE
            /\ UNCHANGED <<fs, threads, memory, pdisk>>

CallSuspiciousOMCLIProxyBinary ==
    /\ om # <<>>
    /\ \E fault \in FaultsAt(fs, om[1].omCLIProxyPath) :
        LET res == SuspiciousOMCLIProxyBinary(om[1], fs, fault)
        IN  /\ last' = [Idle EXCEPT !.op = "SuspiciousOMCLIProxyBinary",
                                    !.err = res.err, !.open = res.open,
                                    !.calls = <<"fileSha256">>,
                                    !.again = (last.op = "SuspiciousOMCLIProxyBinary")]
            /\ flagged' = (flagged \/ res.err = "mismatch")
            /\ UNCHANGED <<fs, om, pinned, threads, memory, pdisk>>

\* The faults the tamper check of a Report can meet: none when it is skipped.
CheckFaults(r) ==
    IF r.enhancedSecurityMode THEN FaultsAt(fs, ReportPath(r)) ELSE {"none"}

Returned(op, res) ==
    [Idle EXCEPT !.op = op, !.err = res.err, !.out = res.out, !.open = res.open,
                 !.calls = res.calls, !.argv = res.argv, !.proc = res.proc]

CallReport ==
    /\ om # <<>>
    /\ \E args \in ArgLists, fault \in CheckFaults(om[1]), run \in ProcRuns :
        LET res == Report(om[1], fs, args, fault, run)
        IN  /\ om' = <<res.om>>
            /\ last' = Returned("Report", res)
            /\ UNCHANGED <<fs, pinned, flagged, threads, memory, pdisk>>

CallChassis ==
    /\ om # <<>>
    /\ \E fault \in CheckFaults(om[1]), run \in ProcRuns :
        LET res == TypedReport(om[1], fs, <<"chassis">>, fault, run)
        IN  /\ om' = <<res.om>>
            /\ last' = Returned("Chassis", res)
            /\ UNCHANGED <<fs, pinned, flagged, threads, memory, pdisk>>

\* The entries the environment puts at a path.  a/omcliproxy, the path the
\* client is pointed at, takes every kind of entry and every content (an
\* unreadable file is written empty: nothing reads its bytes);
\* b/omcliproxy is a second, empty binary, the target of the symbolic links;
\* a/maliciousproxy, the wrongly named fixture, is missing, a link or an
\* empty file, readable or not.
Holds(path) ==
    IF path = PathA
    THEN {Missing, Dir, Symlink(PathB), Regular(<<>>, FALSE)}
             \cup {Regular(d, TRUE) : d \in Contents}
    ELSE IF path = PathB
    THEN {Missing, Regular(<<>>, TRUE)}
    ELSE {Missing, Symlink(PathB), Regular(<<>>, TRUE), Regular(<<>>, FALSE)}

\* ioutil.WriteFile(path, data, perm) by the test or another process: it
\* creates the file with perm, or truncates and rewrites the file the path
\* resolves to.
WriteFile(path, data, readable) ==
    LET target == Follow(fs, path, {path})
        e == EntryAt(fs, target)
        written == IF e.kind = "missing" THEN Regular(data, readable)
                   ELSE Regular(data, e.readable)
    IN  /\ target \in Paths
        /\ e.kind \in {"missing", "regular"}
        /\ written \in Holds(target)
        /\ fs' = [fs EXCEPT ![target] = written]
        /\ last' = Idle
        /\ UNCHANGED <<om, pinned, flagged, threads, memory, pdisk>>

\* os.RemoveAll(path)
RemoveAll(path) ==
    /\ fs[path].kind # "missing"
    /\ fs' = [fs EXCEPT ![path] = Missing]
    /\ last' = Idle
    /\ UNCHANGED <<om, pinned, flagged, threads, memory, pdisk>>

\* os.Symlink(target, path): the fixture testdata/maliciousproxylink.
MakeSymlink(path, target) ==
    /\ fs[path].kind = "missing"
    /\ Symlink(target) \in Holds(path)
    /\ fs' = [fs EXCEPT ![path] = Symlink(target)]
    /\ last' = Idle
    /\ UNCHANGED <<om, pinned, flagged, threads, memory, pdisk>>

\* ioutil.TempDir / os.Mkdir(path)
Mkdir(path) ==
    /\ fs[path].kind = "missing"
    /\ Dir \in Holds(path)
    /\ fs' = [fs EXCEPT ![path] = Dir]
    /\ last' = Idle
    /\ UNCHANGED <<om, pinned, flagged, threads, memory, pdisk>>

Environment ==
    \E path \in Paths :
        \/ \E data \in Contents, readable \in BOOLEAN : WriteFile(path, data, readable)
        \/ RemoveAll(path)
        \/ \E target \in Paths \ {path} : MakeSymlink(path, target)
        \/ Mkdir(path)

Next ==
    \/ CallNewOMReporter
    \/ CallSuspiciousOMCLIProxyBinary
    \/ CallReport
    \/ CallChassis
    \/ Environment

Spec == Init /\ [][Next]_vars

TypeOK ==
    /\ \A path \in Paths : fs[path] \in Holds(path)
    /\ Len(om) <= 1
    /\ pinned \in Contents
    /\ flagged \in BOOLEAN

(* ---------------------------------------------------------------- claims *)

\* The failures of fileSha256 itself: the file cannot be opened, read or closed.
IOErrors == {"open", "read", "close"}

\* The failures of allowedOMCLIProxyBinary.
PathErrors == {"name", "stat", "symlink"}

\* The client's stored path names a readable regular file holding data.
Holding(data) ==
    LET e == Resolved(fs, om[1].omCLIProxyPath)
    IN  e.kind = "regular" /\ e.readable /\ e.data = data

Checked == last.op = "SuspiciousOMCLIProxyBinary"

Built == last.op = "NewOMReporter"

\* C1: the verdict of a tamper check is decided by the bytes now at the
\* trusted path and the bytes read at construction, not by earlier verdicts:
\* it is "not suspicious" only when the path holds exactly the original bytes,
\* a mismatch only when it holds other bytes, and otherwise the I/O failure of
\* the read.
C1_VerdictFollowsBytes ==
    Checked =>
        /\ last.err \in {"nil", "mismatch"} \cup IOErrors
        /\ last.err = "nil" => Holding(pinned)
        /\ last.err = "mismatch" =>
               \E data \in Contents \ {pinned} : Holding(data)
        /\ last.err \in IOErrors => ~(\E data \in Contents : Holding(data))
                                        \/ last.err \in {"read", "close"}

\* A check reports "not suspicious" after an earlier check of the same client
\* reported a mismatch: the bytes were altered, then restored.
C1_RestoredAfterMismatch ==
    Checked /\ last.err = "nil" /\ flagged /\ om[1].omCLIProxyPath = PathA
        /\ fs[PathA].kind = "regular"

\* C2: in enhanced security mode Report calls fileSha256 first, and when the
\* path does not hold the original bytes, or the fingerprint cannot be
\* computed, it returns the check's failure and no output and spawns nothing.
C2_FailedCheckBlocksSpawn ==
    (last.op = "Report" /\ om[1].enhancedSecurityMode) =>
        /\ last.calls # <<>> /\ last.calls[1] = "fileSha256"
        /\ (~Holding(pinned) \/ last.err \in IOErrors \cup {"mismatch"}) =>
               /\ last.err \in IOErrors \cup {"mismatch"}
               /\ last.out = ""
               /\ last.calls = <<"fileSha256">>
               /\ last.argv = <<>>

C2_MismatchReturned ==
    /\ last.op = "Report" /\ om[1].enhancedSecurityMode
    /\ last.err = "mismatch" /\ last.calls = <<"fileSha256">>

\* C3: NewOMReporter on a path whose base name is not omcliproxy returns an
\* error and no client.
C3_WrongNameRejected ==
    (Built /\ Base(last.cfg.OMCLIProxyPath) # DefaultOMCLIProxyBinaryName) =>
        last.err # "nil" /\ om = <<>>

C3_WrongNameReadableFile ==
    /\ Built /\ last.cfg.OMCLIProxyPath = PathM /\ last.cfg.EnhancedSecurityMode
    /\ fs[PathM] = Regular(<<>>, TRUE)
    /\ last.err = "name"

\* C4: NewOMReporter on a path that is a symbolic link returns an error and no
\* client.
C4_SymlinkRejected ==
    (Built /\ EntryAt(fs, last.cfg.OMCLIProxyPath).kind = "symlink") =>
        last.err # "nil" /\ om = <<>>

C4_LinkToGoodBinary ==
    /\ Built /\ last.cfg.OMCLIProxyPath = PathA
    /\ fs[PathA] = Symlink(PathB) /\ fs[PathB] = Regular(<<>>, TRUE)
    /\ Base(PathB) = DefaultOMCLIProxyBinaryName
    /\ last.err = "symlink"

\* C5: NewOMReporter on a readable regular file named omcliproxy succeeds,
\* unless the read itself fails, and fileSha256 of the same path right after
\* equals the stored baseline.
C5_BaselineIsFingerprint ==
    LET path == last.cfg.OMCLIProxyPath
        e == EntryAt(fs, path)
    IN  (/\ Built
         /\ Base(path) = DefaultOMCLIProxyBinaryName
         /\ e.kind = "regular" /\ e.readable
         /\ last.err \notin {"read", "close"}) =>
            /\ last.err = "nil"
            /\ om # <<>>
            /\ fileSha256(fs, path, "none").err = "nil"
            /\ fileSha256(fs, path, "none").sum = om[1].sha256Checksum
            /\ om[1].sha256Checksum = Sha256Sum(e.data)

C5_BuiltOnNonEmptyFile ==
    /\ Built /\ last.err = "nil" /\ om # <<>>
    /\ fs[om[1].omCLIProxyPath].kind = "regular"
    /\ fs[om[1].omCLIProxyPath].data # <<>>

\* C6: a tamper check that follows the construction of the client, or a
\* tamper check that reported "not suspicious", with no write in between,
\* reports "not suspicious" unless its read fails, and leaves the client as
\* it was.
C6_RepeatedChecksAgree ==
    [][ (/\ last.op \in {"NewOMReporter", "SuspiciousOMCLIProxyBinary"}
         /\ last.err = "nil"
         /\ last'.op = "SuspiciousOMCLIProxyBinary") =>
            /\ last'.err \in {"nil", "read", "close"}
            /\ om' = om ]_vars

C6_SecondCheckClean ==
    Checked /\ last.again /\ last.err = "nil" /\ ~flagged

\* C7: with enhanced security mode off, Report calls no fileSha256 and goes
\* on to spawn the process.
C7_NoCheckWhenDisabled ==
    (last.op = "Report" /\ ~om[1].enhancedSecurityMode) =>
        last.calls = <<"exec">> /\ last.argv # <<>>

C7_SpawnedAlteredBinary ==
    /\ last.op = "Report" /\ ~om[1].enhancedSecurityMode
    /\ \E data \in Contents \ {pinned} : Holding(data)
    /\ last.calls = <<"exec">> /\ last.err = "nil"

\* C8: the client holds the path given to NewOMReporter and the fingerprint
\* of the bytes read then, and no Report, typed report or tamper check
\* changes the client.
C8_ClientImmutable ==
    /\ [](om # <<>> =>
            /\ om[1].sha256Checksum = Sha256Sum(pinned)
            /\ om[1].omCLIProxyPath \in Paths
            /\ Built => om[1].omCLIProxyPath = last.cfg.OMCLIProxyPath)
    /\ [][ (/\ om # <<>>
            /\ last'.op \in {"Report", "Chassis", "SuspiciousOMCLIProxyBinary"}) =>
               om' = om ]_vars

C8_AfterFailedTypedReport ==
    /\ last.op = "Chassis" /\ last.err \in {"exit", "start", "mismatch", "read"}
    /\ flagged
    /\ om[1].sha256Checksum = Sha256Sum(pinned)

\* C9: NewOMReporter returns a client with its path, mode and baseline set and
\* no error, or an error and no client; in particular no client when the path
\* check fails and none when the fingerprint fails after the path check passed.
C9_ClientOrError ==
    Built =>
        LET cfg == last.cfg
            e == EntryAt(fs, cfg.OMCLIProxyPath)
        IN  \/ /\ last.err = "nil"
               /\ om = <<OMReport(cfg.OMCLIProxyPath, cfg.EnhancedSecurityMode,
                                  Sha256Sum(e.data))>>
               /\ e.kind = "regular"
            \/ /\ last.err \in PathErrors \cup IOErrors
               /\ om = <<>>

C9_FingerprintFailedAfterValidation ==
    /\ Built /\ last.err \in {"open", "close"} /\ om = <<>>
    /\ Base(last.cfg.OMCLIProxyPath) = DefaultOMCLIProxyBinaryName
    /\ fs[last.cfg.OMCLIProxyPath].kind = "regular"

\* C10, as claimed: NewOMReporter on an existing entry named omcliproxy that
\* is neither a regular file nor a symbolic link fails in the path check.
C10_IrregularFailsValidation ==
    LET path == last.cfg.OMCLIProxyPath
    IN  (/\ Built
         /\ Base(path) = DefaultOMCLIProxyBinaryName
         /\ EntryAt(fs, path).kind = "dir") =>
            last.err \in PathErrors /\ om = <<>>

\* C10, amended: the path check does not ask for a regular file.  A
\* directory named omcliproxy passes it, and NewOMReporter then fails in
\* fileSha256, on the read, and returns no client.
C10_DirectoryFailsInFingerprint ==
    LET path == last.cfg.OMCLIProxyPath
    IN  (/\ Built
         /\ Base(path) = DefaultOMCLIProxyBinaryName
         /\ EntryAt(fs, path).kind = "dir") =>
            /\ allowedOMCLIProxyBinary(fs, path) = "nil"
            /\ last.err = "read"
            /\ om = <<>>

C10_BuiltOnDirectory ==
    Built /\ last.cfg.OMCLIProxyPath = PathA /\ fs[PathA] = Dir /\ last.err = "read"

\* C11: NewOMReporter reports the first path check that fails, in the order
\* name, existence, symbolic link: a wrong base name gives the name failure
\* also on a missing entry or a link, a rightly named missing entry gives the
\* stat failure, and a rightly named link the link failure.
C11_FirstFailingCheck ==
    Built =>
        LET path == last.cfg.OMCLIProxyPath
            e == EntryAt(fs, path)
        IN  /\ Base(path) # DefaultOMCLIProxyBinaryName => last.err = "name"
            /\ (Base(path) = DefaultOMCLIProxyBinaryName /\ e.kind = "missing") =>
                   last.err = "stat"
            /\ (Base(path) = DefaultOMCLIProxyBinaryName /\ e.kind = "symlink") =>
                   last.err = "symlink"
            /\ last.err \in PathErrors =>
                   \/ Base(path) # DefaultOMCLIProxyBinaryName
                   \/ e.kind \in {"missing", "symlink"}

C11_WrongNameOnLinkAndOnMissing ==
    /\ Built /\ last.cfg.OMCLIProxyPath = PathM /\ last.err = "name"
    /\ fs[PathM].kind = "symlink" /\ fs[PathA].kind = "missing"

\* C12: when a call that computes a fingerprint (NewOMReporter, a tamper
\* check, Report in enhanced security mode) has returned, no file handle that
\* fileSha256 opened is still open, whether it returned a digest, an open
\* failure, a read failure or a close failure.
C12_HandleReleased ==
    last.op # "none" => ~last.open

(* ------------------------------------------- calls, statement by statement *)

\* A thread can start a call when it is inside no call.
Free(t) == threads[t].pc \in {"idle", "done"}

\* Report, lines 84-91: default the path, then in enhanced security mode run
\* the tamper check and return its error.
ReportCheck(t) ==
    /\ Free(t)
    /\ om # <<>>
    /\ \E fault \in CheckFaults(om[1]) :
        LET r2 == [om[1] EXCEPT !.omCLIProxyPath = ReportPath(om[1])]
            check == SuspiciousOMCLIProxyBinary(r2, fs, fault)
            failed == r2.enhancedSecurityMode /\ check.err # "nil"
        IN  /\ om' = <<r2>>
            /\ threads' = [threads EXCEPT ![t] =
                   [IdleThread EXCEPT !.op = "Report",
                                      !.pc = IF failed THEN "done" ELSE "checked",
                                      !.err = IF failed THEN check.err ELSE "nil",
                                      !.wrote = (r2 # om[1]),
                                      !.seen = IF r2.enhancedSecurityMode
                                               THEN Resolved(fs, r2.omCLIProxyPath)
                                               ELSE Missing]]
    /\ UNCHANGED <<fs, last, pinned, flagged, memory, pdisk>>

\* Report, lines 92-94: build the argument list and run the process.
ReportSpawn(t) ==
    /\ threads[t].pc = "checked"
    /\ \E run \in ProcRuns :
        LET ran == CombinedOutput(fs, om[1].omCLIProxyPath, run)
        IN  threads' = [threads EXCEPT ![t].pc = "done", ![t].err = ran.err,
                            ![t].used = Resolved(fs, om[1].omCLIProxyPath),
                            ![t].spawned = TRUE]
    /\ UNCHANGED <<fs, om, last, pinned, flagged, memory, pdisk>>

\* SuspiciousOMCLIProxyBinary, called by the thread itself.
TamperCheck(t) ==
    /\ Free(t)
    /\ om # <<>>
    /\ \E fault \in FaultsAt(fs, om[1].omCLIProxyPath) :
        LET res == SuspiciousOMCLIProxyBinary(om[1], fs, fault)
        IN  threads' = [threads EXCEPT ![t] =
                [IdleThread EXCEPT !.op = "SuspiciousOMCLIProxyBinary", !.pc = "done",
                                   !.err = res.err,
                                   !.seen = Resolved(fs, om[1].omCLIProxyPath)]]
    /\ UNCHANGED <<fs, om, last, pinned, flagged, memory, pdisk>>

\* One client, built by NewOMReporter on a file that has since kept or changed
\* its bytes, in the hands of NThreads threads.
InitThreads ==
    /\ fs \in {[path \in Paths |-> IF path = PathA THEN Regular(d, TRUE) ELSE Missing] :
                  d \in Contents}
    /\ om \in {NewOMReporter([path \in Paths |-> Regular(d, TRUE)], cfg, "none").om :
                  d \in Contents, cfg \in Config} \ {<<>>}
    /\ last = Idle
    /\ pinned = <<>>
    /\ flagged = FALSE
    /\ threads = NoThreads
    /\ memory = NoMemory
    /\ pdisk = NoPDisk

NextThreads ==
    \E t \in Tids :
        \/ ReportCheck(t)
        \/ ReportSpawn(t)
        \/ TamperCheck(t)

SpecThreads == InitThreads /\ [][NextThreads]_vars

\* C13: tamper checks and Report calls that several threads make at the same
\* time on one constructed client never assign a field of the client: no call
\* records a write, and no step of any thread changes the path, the flag or
\* the baseline; so no two of them conflict on the client's state.
C13_NoWriteToClient ==
    /\ [](\A t \in Tids : ~threads[t].wrote)
    /\ [][om' = om]_vars

\* Two threads are inside Report at once, and one of them has finished a call
\* before.
C13_TwoThreadsInReport ==
    \E t, u \in Tids :
        /\ t # u
        /\ threads[t].op = "Report" /\ threads[t].pc = "checked"
        /\ threads[u].op = "Report" /\ threads[u].pc = "checked"
        /\ om[1].enhancedSecurityMode

\* A call has run the external process and the process failed to start or
\* exited abnormally.
ProcessFailed == last.op \in {"Report", "Chassis"} /\ last.proc.err # "nil"

\* C14 as stated: when the external process fails to spawn or exits
\* abnormally, the caller receives the combined output and the error of the
\* process, unchanged, from Report and from the typed report operations alike.
C14_OutputAndErrorSurfaced ==
    ProcessFailed => last.err = last.proc.err /\ last.out = last.proc.out

\* C14: when the external process fails to spawn or exits abnormally, the
\* caller receives the error of the process unchanged; Report returns the
\* combined output with it, unchanged, and a typed report operation returns
\* nil in place of the output.
C14_ErrorSurfaced ==
    ProcessFailed =>
        /\ last.err = last.proc.err
        /\ last.op = "Report" => last.out = last.proc.out
        /\ last.op = "Chassis" => last.out = "nil"

\* Chassis has returned after a process that printed a document and exited
\* abnormally.
C14_ChassisAfterAbnormalExit ==
    /\ last.op = "Chassis"
    /\ last.proc = [out |-> "xml", err |-> "exit"]
    /\ last.err = "exit"

(* ----------------------------------- one caller and another process at work *)

\* The thread of the caller.
Main == 1

\* NewOMReporter, lines 67-73: build the struct and validate the path.
NewOMReporterValidate(t) ==
    /\ Free(t)
    /\ \E cfg \in Config :
        LET allowed == allowedOMCLIProxyBinary(fs, cfg.OMCLIProxyPath)
        IN  threads' = [threads EXCEPT ![t] =
                [IdleThread EXCEPT !.op = "NewOMReporter", !.cfg = cfg,
                                   !.pc = IF allowed = "nil" THEN "validated" ELSE "done",
                                   !.err = allowed,
                                   !.seen = EntryAt(fs, cfg.OMCLIProxyPath)]]
    /\ om' = <<>>
    /\ UNCHANGED <<fs, last, pinned, flagged, memory, pdisk>>

\* NewOMReporter, lines 74-79: fingerprint the file and return the client.
NewOMReporterFingerprint(t) ==
    /\ threads[t].pc = "validated"
    /\ \E fault \in FaultsAt(fs, threads[t].cfg.OMCLIProxyPath) :
        LET cfg == threads[t].cfg
            checksum == fileSha256(fs, cfg.OMCLIProxyPath, fault)
        IN  /\ threads' = [threads EXCEPT ![t].pc = "done", ![t].err = checksum.err,
                               ![t].used = EntryAt(fs, cfg.OMCLIProxyPath)]
            /\ om' = IF checksum.err # "nil" THEN <<>>
                     ELSE <<OMReport(cfg.OMCLIProxyPath, cfg.EnhancedSecurityMode,
                                     checksum.sum)>>
    /\ UNCHANGED <<fs, last, pinned, flagged, memory, pdisk>>

\* Another process rewrites the file at the trusted path, removes it, or puts
\* a symbolic link to a second binary in its place.
EnvironmentAtTrustedPath ==
    \/ \E data \in Contents : WriteFile(PathA, data, TRUE)
    \/ RemoveAll(PathA)
    \/ MakeSymlink(PathA, PathB)

InitRace ==
    /\ fs \in {[path \in Paths |-> IF path = PathA THEN Regular(d, TRUE)
                                   ELSE IF path = PathB THEN Regular(<<>>, TRUE)
                                   ELSE Missing] : d \in Contents}
    /\ om = <<>>
    /\ last = Idle
    /\ pinned = <<>>
    /\ flagged = FALSE
    /\ threads = NoThreads
    /\ memory = NoMemory
    /\ pdisk = NoPDisk

NextRace ==
    \/ NewOMReporterValidate(Main)
    \/ NewOMReporterFingerprint(Main)
    \/ ReportCheck(Main)
    \/ ReportSpawn(Main)
    \/ EnvironmentAtTrustedPath

SpecRace == InitRace /\ [][NextRace]_vars

\* C15: in enhanced security mode, whatever another process does to the file
\* at the trusted path and whenever it does it, a process that Report has
\* spawned ran a file whose fingerprint is the baseline.
C15_SpawnedFileMatchesBaseline ==
    \A t \in Tids :
        ( /\ threads[t].op = "Report" /\ threads[t].pc = "done"
          /\ threads[t].spawned
          /\ om[1].enhancedSecurityMode
          /\ threads[t].used.kind = "regular" )
        => Sha256Sum(threads[t].used.data) = om[1].sha256Checksum

\* C16: when NewOMReporter has returned a client, whatever another process
\* did meanwhile, the entry it fingerprinted was not a symbolic link and the
\* baseline is the fingerprint of the entry that passed validation.
C16_BaselineOfValidatedEntry ==
    \A t \in Tids :
        ( /\ threads[t].op = "NewOMReporter" /\ threads[t].pc = "done"
          /\ threads[t].err = "nil" )
        => /\ threads[t].used.kind # "symlink"
           /\ om[1].sha256Checksum = Sha256Sum(threads[t].seen.data)

(* ------------------------------------------ a binary at the default location *)

\* The default location, as Report joins it.
DefaultOMCLIProxyPath == Join(DefaultOMCLIProxyDir, DefaultOMCLIProxyBinaryName)

\* A host with OMSA installed: a readable binary at the default location
\* beside the paths of the fixture.
InitInstalled ==
    /\ fs \in {[path \in Paths \cup {DefaultOMCLIProxyPath} |->
                   IF path = PathA THEN e ELSE IF path = PathM THEN Missing
                   ELSE Regular(<<>>, TRUE)] : e \in {Missing, Regular(<<>>, TRUE)}}
    /\ om = <<>>
    /\ last = Idle
    /\ pinned = <<>>
    /\ flagged = FALSE
    /\ threads = NoThreads
    /\ memory = NoMemory
    /\ pdisk = NoPDisk

NextInstalled ==
    \/ CallNewOMReporter
    \/ CallReport
    \/ \E data \in Contents : WriteFile(PathA, data, TRUE)

SpecInstalled == InitInstalled /\ [][NextInstalled]_vars

\* C17: the default location is applied when and only when the caller leaves
\* the path unset: NewOMReporter with an empty path returns a client, and that
\* client runs the binary at the default location; a client built with a path
\* holds that path and not the default one.
C17_DefaultWhenUnset ==
    Built =>
        /\ last.cfg.OMCLIProxyPath = <<>> =>
               /\ last.err = "nil"
               /\ om # <<>>
               /\ ReportPath(om[1]) = DefaultOMCLIProxyPath
        /\ (last.cfg.OMCLIProxyPath # <<>> /\ om # <<>>) =>
               om[1].omCLIProxyPath = last.cfg.OMCLIProxyPath

\* C18: the tamper check does not validate the path again.  When the entry at
\* the trusted path has been replaced by another file or by a symbolic link,
\* and the path still leads to the bytes read at construction, the tamper
\* check reports neither a mismatch nor a path failure (it returns nil unless
\* the read itself fails), and Report in enhanced security mode goes on to
\* spawn the process.
C18_NoRevalidation ==
    (om # <<>> /\ Holding(pinned)) =>
        /\ Checked => last.err \in {"nil", "read", "close"}
        /\ (last.op = "Report" /\ om[1].enhancedSecurityMode) =>
               /\ last.err \notin PathErrors \cup {"mismatch"}
               /\ last.err \notin IOErrors => last.calls = <<"fileSha256", "exec">>

\* Report in enhanced security mode has spawned the process through a symbolic
\* link that NewOMReporter would refuse.
C18_SpawnedThroughLink ==
    /\ last.op = "Report" /\ om[1].enhancedSecurityMode
    /\ last.calls = <<"fileSha256", "exec">>
    /\ EntryAt(fs, om[1].omCLIProxyPath).kind = "symlink"
    /\ allowedOMCLIProxyBinary(fs, om[1].omCLIProxyPath) = "symlink"

(* --------------------------------------------------- the argument list *)

\* The longest array behind a caller's slice.
MaxCap == 3

\* The most spare capacity the runtime adds when append allocates.
MaxSlack == 2

\* The words callers pass.
Words == {"chassis", "fans"}

\* The controller ids callers pass to StoragePDisk.
Cids == {-1, 0, 7, 12}

DigitChars == <<"0", "1", "2", "3", "4", "5", "6", "7", "8", "9">>

\* fmt.Sprintf("%d", n)
RECURSIVE Itoa(_)
Itoa(n) ==
    IF n < 0 THEN "-" \o Itoa(-n)
    ELSE IF n < 10 THEN DigitChars[n + 1]
    ELSE Itoa(n \div 10) \o DigitChars[(n % 10) + 1]

\* fmt.Sprintf("controller=%d", cid)
ControllerArg(cid) == "controller=" \o Itoa(cid)

\* A slice: the array it points into (an index of the heap), its length and
\* its capacity.  The heap is the sequence of the arrays allocated.
Slice(arr, len, cap) == [arr |-> arr, len |-> len, cap |-> cap]

\* The elements of a slice.
Elems(heap, s) == SubSeq(heap[s.arr], 1, s.len)

\* n zero-valued strings.
Zeros(n) == [i \in 1..n |-> ""]

\* []string{...}: a new array holding elems, and a slice of all of it.
Literal(heap, elems) ==
    [heap |-> Append(heap, elems), slice |-> Slice(Len(heap) + 1, Len(elems), Len(elems))]

\* append(s, elems...): in place when the capacity of s allows, else into a
\* new array that has slack cells to spare.
GoAppend(heap, s, elems, slack) ==
    LET n == s.len + Len(elems)
    IN  IF n <= s.cap
        THEN [heap |-> [heap EXCEPT ![s.arr] =
                           [i \in 1..s.cap |-> IF i > s.len /\ i <= n
                                               THEN elems[i - s.len] ELSE @[i]]],
              slice |-> Slice(s.arr, n, s.cap)]
        ELSE [heap |-> Append(heap, Elems(heap, s) \o elems \o Zeros(slack)),
              slice |-> Slice(Len(heap) + 1, n, n + slack)]

\* A Report that appends "-fmt", "xml" to the slice it was given before it
\* copies it behind "omreport".
ReportArgsInPlace(heap, args, slack1, slack2) ==
    LET tail == GoAppend(heap, args, <<"-fmt", "xml">>, slack1)
        lit == Literal(tail.heap, <<DefaultOMReportCommandName>>)
    IN  GoAppend(lit.heap, lit.slice, Elems(tail.heap, tail.slice), slack2)

\* Report, lines 92-93: the heap and the slice handed to exec.Command.
ReportArgs(heap, args, slack1, slack2) ==
    LET lit == Literal(heap, <<DefaultOMReportCommandName>>)
        head == GoAppend(lit.heap, lit.slice, Elems(heap, args), slack1)
    IN  GoAppend(head.heap, head.slice, <<"-fmt", "xml">>, slack2)

\* The caller's array and the slice of it that it passes, before any call:
\* array is the caller's backing array, len the length of the slice it passes,
\* given the array as it was when the call was made, argv and spare the
\* elements and the unused capacity of the slice handed to exec.Command, path
\* the binary run and cid the controller id given to StoragePDisk.
Caller(array, len) ==
    [op |-> "none", array |-> array, len |-> len, given |-> array,
     argv |-> <<>>, spare |-> 0, path |-> <<>>, cid |-> 0]

Arrays == UNION {[1..n -> Words] : n \in 0..MaxCap}

Callers == UNION {{Caller(array, len) : len \in 0..Len(array)} : array \in Arrays}

\* A client on a/omcliproxy and a caller about to pass a slice of its array.
InitArgs ==
    /\ fs = [path \in Paths |-> IF path = PathA THEN Regular(<<>>, TRUE) ELSE Missing]
    /\ om \in {NewOMReporter(fs, cfg, "none").om : cfg \in Config} \ {<<>>}
    /\ last = Idle
    /\ pinned = <<>>
    /\ flagged = FALSE
    /\ threads = NoThreads
    /\ memory \in Callers
    /\ pdisk = NoPDisk

\* om.Report(args...) with the caller's slice, in a call that gets as far as
\* exec.Command.
CallReportArgs ==
    \E slack1 \in 0..MaxSlack, slack2 \in 0..MaxSlack :
        LET heap == <<memory.array>>
            args == Slice(1, memory.len, Len(memory.array))
            r2 == [om[1] EXCEPT !.omCLIProxyPath = ReportPath(om[1])]
            built == ReportArgs(heap, args, slack1, slack2)
        IN  /\ om' = <<r2>>
            /\ memory' = [op |-> "Report", array |-> built.heap[1], len |-> memory.len,
                          given |-> memory.array,
                          argv |-> Elems(built.heap, built.slice),
                          spare |-> built.slice.cap - built.slice.len,
                          path |-> r2.omCLIProxyPath, cid |-> 0]
            /\ UNCHANGED <<fs, last, pinned, flagged, threads, pdisk>>

\* om.StoragePDisk(cid): Report("storage", "pdisk", "controller=<cid>").
CallStoragePDisk ==
    \E cid \in Cids, slack1 \in 0..MaxSlack, slack2 \in 0..MaxSlack :
        LET lit == Literal(<<memory.array>>, <<"storage", "pdisk", ControllerArg(cid)>>)
            r2 == [om[1] EXCEPT !.omCLIProxyPath = ReportPath(om[1])]
            built == ReportArgs(lit.heap, lit.slice, slack1, slack2)
        IN  /\ om' = <<r2>>
            /\ memory' = [op |-> "StoragePDisk", array |-> built.heap[1],
                          len |-> memory.len, given |-> memory.array,
                          argv |-> Elems(built.heap, built.slice),
                          spare |-> built.slice.cap - built.slice.len,
                          path |-> r2.omCLIProxyPath, cid |-> cid]
            /\ UNCHANGED <<fs, last, pinned, flagged, threads, pdisk>>

\* The caller sets up the slice of its next call.
PrepareArgs ==
    /\ memory' \in Callers
    /\ UNCHANGED <<fs, om, last, pinned, flagged, threads, pdisk>>

NextArgs ==
    \/ CallReportArgs
    \/ CallStoragePDisk
    \/ PrepareArgs

SpecArgs == InitArgs /\ [][NextArgs]_vars

\* The third argument StoragePDisk must pass for each controller id.
ControllerArgs ==
    [cid \in Cids |-> CASE cid = -1 -> "controller=-1"
                        [] cid = 0 -> "controller=0"
                        [] cid = 7 -> "controller=7"
                        [] cid = 12 -> "controller=12"]

\* C19: for every argument list passed to Report the process is spawned on the
\* client's stored path with "omreport", then the caller's arguments in their
\* order, then "-fmt", "xml", and the array behind the caller's slice is as it
\* was, beyond the slice's length too; StoragePDisk passes "storage", "pdisk",
\* "controller=" and the id in decimal.
C19_ArgvAndCallerSlice ==
    memory # NoMemory /\ memory.op # "none" =>
        /\ memory.path = om[1].omCLIProxyPath /\ memory.path = PathA
        /\ memory.array = memory.given
        /\ memory.op = "Report" =>
               memory.argv = <<"omreport">> \o SubSeq(memory.given, 1, memory.len)
                                 \o <<"-fmt", "xml">>
        /\ memory.op = "StoragePDisk" =>
               memory.argv = <<"omreport", "storage", "pdisk",
                               ControllerArgs[memory.cid], "-fmt", "xml">>

\* Report has been given a one-element slice of an array with room for two
\* more, and was handed back a list with no capacity to spare.
C19_SliceWithSpareCapacity ==
    /\ memory # NoMemory /\ memory.op = "Report"
    /\ memory.len = 1 /\ Len(memory.given) = 3
    /\ Len(memory.argv) = 4 /\ memory.spare = 0

(* ------------------------------------------------ the attribute mask *)

\* A 64-bit integer is the set of the positions of its one bits, bit 0 the
\* least significant; as an int64 it is negative when it holds bit 63.
BitSize == 64

AttrGlobalHS == {7}
AttrDedicatedHS == {8}
AttrFailurePredicted == {11}

\* attr & flag
And(attr, flag) == attr \cap flag

\* n > 0, n an int64
Positive(n) == n # {} /\ (BitSize - 1) \notin n

\* -n in two's complement
Negate(n) ==
    IF n = {} THEN {}
    ELSE LET low == CHOOSE b \in n : \A c \in n : b <= c
         IN  {low} \cup {b \in 0..(BitSize - 1) : b > low /\ b \notin n}

\* strconv.ParseUint(s, 2, 64) from character i on, n the value so far: a
\* character that is no binary digit is a syntax error with 0; a digit that
\* would take the value past 64 bits is a range error with the largest value,
\* whatever follows it.
RECURSIVE ParseUintFrom(_, _, _)
ParseUintFrom(s, i, n) ==
    IF i > Len(s) THEN [n |-> n, err |-> "nil"]
    ELSE IF s[i] \notin {"0", "1"} THEN [n |-> {}, err |-> "syntax"]
    ELSE IF (BitSize - 1) \in n THEN [n |-> 0..(BitSize - 1), err |-> "range"]
    ELSE ParseUintFrom(s, i + 1, {b + 1 : b \in n} \cup (IF s[i] = "1" THEN {0} ELSE {}))

ParseUint(s) ==
    IF s = <<>> THEN [n |-> {}, err |-> "syntax"] ELSE ParseUintFrom(s, 1, {})

\* strconv.ParseInt(s, 2, 64): an optional sign, then ParseUint; a magnitude
\* beyond the int64 range is a range error with the nearest int64.
ParseInt(s) ==
    IF s = <<>> THEN [n |-> {}, err |-> "syntax"]
    ELSE LET neg == s[1] = "-"
             un == ParseUint(IF s[1] \in {"+", "-"} THEN Tail(s) ELSE s)
             cutoff == {BitSize - 1}
         IN  IF un.err = "syntax" THEN [n |-> {}, err |-> "syntax"]
             ELSE IF ~neg /\ (BitSize - 1) \in un.n
             THEN [n |-> 0..(BitSize - 2), err |-> "range"]
             ELSE IF neg /\ (BitSize - 1) \in un.n /\ un.n # cutoff
             THEN [n |-> cutoff, err |-> "range"]
             ELSE [n |-> IF neg THEN Negate(un.n) ELSE un.n, err |-> "nil"]

\* The three methods: (attr & flag) > 0, err.
AttributeSet(mask, flag) ==
    LET parsed == ParseInt(mask)
    IN  [ret |-> Positive(And(parsed.n, flag)), err |-> parsed.err]

FailurePredicted(p) == AttributeSet(p.AttributesMask, AttrFailurePredicted)

GlobalHotSpare(p) == AttributeSet(p.AttributesMask, AttrGlobalHS)

DedicatedHotSpare(p) == AttributeSet(p.AttributesMask, AttrDedicatedHS)

\* The digits of a mask width characters long with ones at the given bits.
Digits(width, ones) == [i \in 1..width |-> IF (width - i) \in ones THEN "1" ELSE "0"]

\* The bits the masks of the fixture turn on: the three flags, the sign bit of
\* an int64 and the first bit beyond it.
MaskBits == {7, 8, 11, BitSize - 1, BitSize}

\* The masks a decoded document can carry: none, a lone sign, and digit strings
\* of 12, 64 and 65 characters, signed or not, sound or with a character that
\* is no binary digit at the front or at the end.
Masks ==
    LET sound == {Digits(width, ones) : width \in {12, BitSize, BitSize + 1},
                                        ones \in SUBSET MaskBits}
        spoilt == {[d EXCEPT ![1] = "2"] : d \in sound}
                      \cup {Append(d, "x") : d \in sound}
    IN  {<<>>, <<"-">>}
            \cup {sign \o d : sign \in {<<>>, <<"-">>, <<"+">>}, d \in sound \cup spoilt}

\* A PDisk decoded from a document, before any method is called on it.
PDisk(mask) == [AttributesMask |-> mask, op |-> "none", ret |-> FALSE, err |-> "nil"]

InitPDisk ==
    /\ fs = [path \in Paths |-> Missing]
    /\ om = <<>>
    /\ last = Idle
    /\ pinned = <<>>
    /\ flagged = FALSE
    /\ threads = NoThreads
    /\ memory = NoMemory
    /\ pdisk \in {PDisk(mask) : mask \in Masks}

\* xml.Unmarshal hands the caller another PDisk.
DecodePDisk ==
    /\ pdisk' \in {PDisk(mask) : mask \in Masks}
    /\ UNCHANGED <<fs, om, last, pinned, flagged, threads, memory>>

Called(op, res) ==
    /\ pdisk' = [pdisk EXCEPT !.op = op, !.ret = res.ret, !.err = res.err]
    /\ UNCHANGED <<fs, om, last, pinned, flagged, threads, memory>>

CallFailurePredicted == Called("FailurePredicted", FailurePredicted(pdisk))

CallGlobalHotSpare == Called("GlobalHotSpare", GlobalHotSpare(pdisk))

CallDedicatedHotSpare == Called("DedicatedHotSpare", DedicatedHotSpare(pdisk))

NextPDisk ==
    \/ DecodePDisk
    \/ CallFailurePredicted
    \/ CallGlobalHotSpare
    \/ CallDedicatedHotSpare

SpecPDisk == InitPDisk /\ [][NextPDisk]_vars

\* The flag each method tests.
FlagOf(op) ==
    CASE op = "FailurePredicted" -> AttrFailurePredicted
      [] op = "GlobalHotSpare" -> AttrGlobalHS
      [] op = "DedicatedHotSpare" -> AttrDedicatedHS

\* C20: for every attribute mask, FailurePredicted, GlobalHotSpare and
\* DedicatedHotSpare return true exactly when the mask parses as a binary
\* number that has bit 11, 7 or 8 set, and when the mask does not parse they
\* return an error together with false.
C20_MaskPredicates ==
    (pdisk # NoPDisk /\ pdisk.op # "none") =>
        LET parsed == ParseInt(pdisk.AttributesMask)
        IN  /\ pdisk.ret <=> (parsed.err = "nil" /\ FlagOf(pdisk.op) \subseteq parsed.n)
            /\ parsed.err # "nil" => (pdisk.err # "nil" /\ ~pdisk.ret)

====
